---- MODULE Spec2Model ----
(***************************************************************************)
(* A model of the CultureCoded JavaScript client                           *)
(* (src/javascript/src/types.ts, class CultureCoded).                      *)
(*                                                                         *)
(* Strings that are only compared are TLA+ strings.  URLs and paths are    *)
(* sequences of tokens in which every "/" written by the client or by the  *)
(* caller at the end of a base URL is a token of its own, so that          *)
(* concatenation is \o and a doubled slash is visible.  JavaScript         *)
(* objects are sequences of <<key, value>> pairs in insertion order.       *)
(***************************************************************************)
EXTENDS Integers, Sequences, FiniteSets, TLC

VARIABLES
    ctor,        \* "none", "ok" (an instance exists) or "threw"
    config,      \* the config object given to the latest `new CultureCoded`
    ctorError,   \* message of the Error the latest constructor call threw
    apiKey,      \* private field this.apiKey
    baseUrl,     \* private field this.baseUrl
    calls,       \* per call slot: position, arguments, requests, response, outcome
    fetchCount   \* number of fetch() invocations made so far

vars == <<ctor, config, ctorError, apiKey, baseUrl, calls, fetchCount>>

(***************************************************************************)
(* Bounds                                                                  *)
(***************************************************************************)
\* fetch() is invoked at most this many times in a behaviour
MaxFetches == 3

\* the longest country name given to getEthnicGroups
MaxCountryLen == 3

(***************************************************************************)
(* JavaScript values                                                       *)
(***************************************************************************)
\* the value `undefined` of an optional string (a missing property)
Absent == "<undefined>"

\* the value `undefined` of an optional URL
NoUrl == <<"<undefined>">>

\* !!v for a string-or-undefined v
Truthy(v) == v \notin {Absent, ""}

\* !!u for a URL-or-undefined u; << >> is the empty string
TruthyUrl(u) == u \notin {NoUrl, << >>}

\* obj[k] for an object given as a sequence of <<key, value>> pairs
Get(obj, k) ==
    IF \E i \in 1..Len(obj) : obj[i][1] = k
    THEN obj[CHOOSE i \in 1..Len(obj) : obj[i][1] = k][2]
    ELSE Absent

Defined(p) == p[2] # Absent

\* JSON.stringify(obj): properties whose value is undefined are left out
JSONstringify(obj) == SelectSeq(obj, Defined)

(***************************************************************************)
(* Input domains                                                           *)
(***************************************************************************)
ApiKeys == {Absent, "", "key-1", "key-2"}

Staging == "https://staging.example"

BaseUrls == {NoUrl, << >>, <<Staging>>, <<Staging, "/">>}

Configs == [apiKey : ApiKeys, baseUrl : BaseUrls]

AnalysisIds == {"a1", "a2"}

ImageUrls == {Absent, "", "https://example.com/design.png"}

ImageData == {Absent, "", "aGVsbG8="}

EthnicGroupNames == {Absent, "Yoruba"}

Formats == {"pdf", "csv", "figma"}

FileKeys == {Absent, "", "fk-1"}

Countries == {<<"N", "g">>, <<"U", " ", "K">>}

\* the AnalyzeDesignOptions objects the caller passes
AnalyzeOptions ==
    { << <<"imageUrl", u>>, <<"imageBase64", b>>, <<"targetRegion", "Africa">>,
         <<"targetCountry", "Nigeria">>, <<"ethnicGroup", g>>,
         <<"designType", "landing_page">> >> :
      u \in ImageUrls, b \in ImageData, g \in EthnicGroupNames }

\* the object literal {analysisId, format, figmaFileKey}
ExportOptionsOf(analysisId, format, figmaFileKey) ==
    << <<"analysisId", analysisId>>, <<"format", format>>,
       <<"figmaFileKey", figmaFileKey>> >>

ExportOptionsSet ==
    { ExportOptionsOf(a, f, k) : a \in AnalysisIds, f \in Formats, k \in FileKeys }

NoInv == [op |-> "", options |-> << >>, id |-> Absent, key |-> Absent, country |-> << >>]

Inv0(op) == [NoInv EXCEPT !.op = op]

Invocations ==
    { [NoInv EXCEPT !.op = "analyzeDesign", !.options = o] : o \in AnalyzeOptions }
    \cup { [NoInv EXCEPT !.op = "exportAnalysis", !.options = o] : o \in ExportOptionsSet }
    \cup { [NoInv EXCEPT !.op = "exportToFigma", !.id = a, !.key = k] :
             a \in AnalysisIds, k \in FileKeys \ {Absent} }
    \cup { [NoInv EXCEPT !.op = op, !.id = a] :
             op \in {"getAnalysis", "deleteAnalysis"}, a \in AnalysisIds }
    \cup { [NoInv EXCEPT !.op = "getEthnicGroups", !.country = c] : c \in Countries }
    \cup { Inv0(op) : op \in {"getAnalyses", "getRegions", "getExports", "getUser", "getUsage"} }

(***************************************************************************)
(* Responses the transport can deliver                                     *)
(***************************************************************************)
\* a response body: t is "empty" or "html" (not JSON), "null", "string",
\* "number" (JSON primitives) or "object" (with optional message and code)
Body(t, message, code) == [t |-> t, message |-> message, code |-> code]

Messages == {Absent, "", "Insufficient credits"}

Codes == {Absent, "NO_CREDITS"}

Bodies ==
    { Body(t, Absent, Absent) : t \in {"empty", "html", "null", "string", "number"} }
    \cup { Body("object", m, c) : m \in Messages, c \in Codes }

Statuses == {200, 201, 204, 401, 402}

NoError == [name |-> "", message |-> "", status |-> {}, code |-> Absent]

\* the errors fetch() itself rejects with
TransportErrors ==
    { [NoError EXCEPT !.name = "TypeError", !.message = "fetch failed"],
      [NoError EXCEPT !.name = "AbortError", !.message = "The operation was aborted"] }

NoResp == [kind |-> "", status |-> 0, body |-> Body("empty", Absent, Absent), error |-> NoError]

Responses ==
    { [NoResp EXCEPT !.kind = "http", !.status = s, !.body = b] :
        s \in Statuses \ {204}, b \in Bodies }
    \cup { [NoResp EXCEPT !.kind = "http", !.status = 204, !.body = b] :
        b \in {Body("empty", Absent, Absent), Body("html", Absent, Absent)} }
    \cup { [NoResp EXCEPT !.kind = "network", !.error = e] : e \in TransportErrors }

(***************************************************************************)
(* Errors and promise outcomes                                             *)
(***************************************************************************)
\* new Error(message): no status and no code attached
PlainError(message) == [NoError EXCEPT !.name = "Error", !.message = message]

Undefined == Body("undefined", Absent, Absent)

NoOutcome == [state |-> "", value |-> Undefined, error |-> NoError]

Fulfilled(value) == [NoOutcome EXCEPT !.state = "fulfilled", !.value = value]

Rejected(error) == [NoOutcome EXCEPT !.state = "rejected", !.error = error]

(***************************************************************************)
(* constructor                                                             *)
(***************************************************************************)
DefaultBaseUrl == <<"https://culturecoded.replit.app">>

ApiKeyRequired == "API key is required. Get one at https://culturecoded.io/api-docs"

\* mutant: only a missing key is refused, an empty one is accepted
CtorThrows_AbsentOnly(cfg) == cfg.apiKey = Absent

\* if (!config.apiKey) throw ...
CtorThrows(cfg) == ~Truthy(cfg.apiKey)

\* config.baseUrl || 'https://culturecoded.replit.app'
CtorBaseUrl(cfg) == IF TruthyUrl(cfg.baseUrl) THEN cfg.baseUrl ELSE DefaultBaseUrl

(***************************************************************************)
(* request: building the fetch() call                                      *)
(***************************************************************************)
NoRequest == [url |-> << >>, method |-> "", headers |-> << >>, hasBody |-> FALSE, body |-> << >>]

\* mutant: the key header is left out
Headers_NoKey ==
    << <<"Content-Type", "application/json">>,
       <<"User-Agent", "culturecoded-sdk-js/1.0.0">> >>

Headers ==
    << <<"x-api-key", apiKey>>, <<"Content-Type", "application/json">>,
       <<"User-Agent", "culturecoded-sdk-js/1.0.0">> >>

\* `${this.baseUrl}${path}`
JoinUrl(base, path) == base \o path

\* the (url, options) handed to fetch(); passBody says whether the caller of
\* request gave a body argument
request(method, path, passBody, body) ==
    LET withBody == passBody /\ method \in {"POST", "PATCH"}
    IN  [url |-> JoinUrl(baseUrl, path), method |-> method, headers |-> Headers,
         hasBody |-> withBody,
         body |-> IF withBody THEN JSONstringify(body) ELSE << >>]

\* what an operation does when called: throw before any request, or call fetch
Throws(message) == [threw |-> TRUE, error |-> PlainError(message), req |-> NoRequest]

Sends(req) == [threw |-> FALSE, error |-> NoError, req |-> req]

(***************************************************************************)
(* encodeURIComponent over the characters of the model                     *)
(***************************************************************************)
Escapes ==
    (" " :> <<"%", "2", "0">>) @@ ("/" :> <<"%", "2", "F">>) @@
    ("?" :> <<"%", "3", "F">>) @@ ("#" :> <<"%", "2", "3">>) @@
    ("%" :> <<"%", "2", "5">>)

\* mutant: encodeURI is used, which leaves "/", "?" and "#" as they are
RECURSIVE encodeURIComponent_encodeURI(_)
encodeURIComponent_encodeURI(s) ==
    IF s = << >> THEN << >>
    ELSE (IF Head(s) \in {" ", "%"} THEN Escapes[Head(s)] ELSE <<Head(s)>>)
         \o encodeURIComponent_encodeURI(Tail(s))

RECURSIVE encodeURIComponent(_)
encodeURIComponent(s) ==
    IF s = << >> THEN << >>
    ELSE (IF Head(s) \in DOMAIN Escapes THEN Escapes[Head(s)] ELSE <<Head(s)>>)
         \o encodeURIComponent(Tail(s))

(***************************************************************************)
(* The operations                                                          *)
(***************************************************************************)
ApiRoot == <<"/", "api", "/", "v1", "/">>

\* mutant: the analysis is posted to the collection path
analyzeDesign_ToAnalyses(options) ==
    IF ~Truthy(Get(options, "imageUrl")) /\ ~Truthy(Get(options, "imageBase64"))
    THEN Throws("Either imageUrl or imageBase64 is required")
    ELSE Sends(request("POST", ApiRoot \o <<"analyses">>, TRUE, options))

\* mutant: the image check is left out
analyzeDesign_NoCheck(options) ==
    Sends(request("POST", ApiRoot \o <<"analyze">>, TRUE, options))

\* mutant: a call carrying both image forms is refused as well
analyzeDesign_ExactlyOne(options) ==
    IF Truthy(Get(options, "imageUrl")) = Truthy(Get(options, "imageBase64"))
    THEN Throws("Either imageUrl or imageBase64 is required")
    ELSE Sends(request("POST", ApiRoot \o <<"analyze">>, TRUE, options))

analyzeDesign(options) ==
    IF ~Truthy(Get(options, "imageUrl")) /\ ~Truthy(Get(options, "imageBase64"))
    THEN Throws("Either imageUrl or imageBase64 is required")
    ELSE Sends(request("POST", ApiRoot \o <<"analyze">>, TRUE, options))

getAnalyses == Sends(request("GET", ApiRoot \o <<"analyses">>, FALSE, << >>))

getAnalysis(id) == Sends(request("GET", ApiRoot \o <<"analyses", "/", id>>, FALSE, << >>))

deleteAnalysis(id) ==
    Sends(request("DELETE", ApiRoot \o <<"analyses", "/", id>>, FALSE, << >>))

getEthnicGroups(country) ==
    Sends(request("GET", ApiRoot \o <<"ethnic-groups", "/">> \o encodeURIComponent(country),
                  FALSE, << >>))

getRegions == Sends(request("GET", ApiRoot \o <<"regions">>, FALSE, << >>))

\* mutant: the file key is demanded for every format
exportAnalysis_KeyAlways(options) ==
    IF ~Truthy(Get(options, "figmaFileKey"))
    THEN Throws("figmaFileKey is required for Figma exports")
    ELSE Sends(request("POST", ApiRoot \o <<"exports">>, TRUE, options))

exportAnalysis(options) ==
    IF Get(options, "format") = "figma" /\ ~Truthy(Get(options, "figmaFileKey"))
    THEN Throws("figmaFileKey is required for Figma exports")
    ELSE Sends(request("POST", ApiRoot \o <<"exports">>, TRUE, options))

\* mutant: the alias goes straight to request and skips exportAnalysis's check
exportToFigma_Direct(analysisId, figmaFileKey) ==
    Sends(request("POST", ApiRoot \o <<"exports">>, TRUE,
                  ExportOptionsOf(analysisId, "figma", figmaFileKey)))

exportToFigma(analysisId, figmaFileKey) ==
    exportAnalysis(ExportOptionsOf(analysisId, "figma", figmaFileKey))

getExports == Sends(request("GET", ApiRoot \o <<"exports">>, FALSE, << >>))

getUser == Sends(request("GET", ApiRoot \o <<"user">>, FALSE, << >>))

getUsage == Sends(request("GET", ApiRoot \o <<"stats">>, FALSE, << >>))

\* the method the caller invoked, run up to its first await
Dispatch(inv) ==
    CASE inv.op = "analyzeDesign" -> analyzeDesign(inv.options)
      [] inv.op = "getAnalyses" -> getAnalyses
      [] inv.op = "getAnalysis" -> getAnalysis(inv.id)
      [] inv.op = "deleteAnalysis" -> deleteAnalysis(inv.id)
      [] inv.op = "getEthnicGroups" -> getEthnicGroups(inv.country)
      [] inv.op = "getRegions" -> getRegions
      [] inv.op = "exportAnalysis" -> exportAnalysis(inv.options)
      [] inv.op = "exportToFigma" -> exportToFigma(inv.id, inv.key)
      [] inv.op = "getExports" -> getExports
      [] inv.op = "getUser" -> getUser
      [] inv.op = "getUsage" -> getUsage

(***************************************************************************)
(* request: after fetch() settles                                          *)
(***************************************************************************)
\* response.ok
ResponseOk(r) == r.status \in 200..299

IsJson(b) == b.t \notin {"empty", "html"}

JsonSyntaxError ==
    [NoError EXCEPT !.name = "SyntaxError", !.message = "Unexpected end of JSON input"]

NullPropertyError ==
    [NoError EXCEPT !.name = "TypeError",
                    !.message = "Cannot read properties of null (reading 'message')"]

\* await response.json().catch(() => ({}))
ErrorData(r) == IF IsJson(r.body) THEN r.body ELSE Body("object", Absent, Absent)

\* mutant: the service's code is not copied to the error
ErrorFor_NoCode(r) ==
    LET errorData == ErrorData(r)
    IN  IF errorData.t = "null"
        THEN NullPropertyError
        ELSE [name |-> "Error",
              message |-> IF Truthy(errorData.message)
                          THEN errorData.message
                          ELSE "Request failed with status " \o ToString(r.status),
              status |-> {r.status},
              code |-> Absent]

\* the body of `if (!response.ok) { ... }`: the value thrown
ErrorFor(r) ==
    LET errorData == ErrorData(r)
    IN  IF errorData.t = "null"
        THEN NullPropertyError
        ELSE [name |-> "Error",
              message |-> IF Truthy(errorData.message)
                          THEN errorData.message
                          ELSE "Request failed with status " \o ToString(r.status),
              status |-> {r.status},
              code |-> errorData.code]

\* mutant: a successful response whose body does not parse counts as empty
HandleResponse_EmptyOk(r) ==
    IF r.kind = "network" THEN Rejected(r.error)
    ELSE IF ~ResponseOk(r) THEN Rejected(ErrorFor(r))
    ELSE IF r.status = 204 \/ ~IsJson(r.body) THEN Fulfilled(Undefined)
    ELSE Fulfilled(r.body)

\* mutant: no special case for 204, the body is always parsed
HandleResponse_No204(r) ==
    IF r.kind = "network" THEN Rejected(r.error)
    ELSE IF ~ResponseOk(r) THEN Rejected(ErrorFor(r))
    ELSE IF IsJson(r.body) THEN Fulfilled(r.body)
    ELSE Rejected(JsonSyntaxError)

\* the outcome of request() once fetch() has settled with r
HandleResponse(r) ==
    IF r.kind = "network" THEN Rejected(r.error)
    ELSE IF ~ResponseOk(r) THEN Rejected(ErrorFor(r))
    ELSE IF r.status = 204 THEN Fulfilled(Undefined)
    ELSE IF IsJson(r.body) THEN Fulfilled(r.body)
    ELSE Rejected(JsonSyntaxError)

\* what the operation makes of request()'s outcome: deleteAnalysis awaits it
\* and returns nothing, every other operation returns it
Finish(op, outcome) ==
    IF op = "deleteAnalysis" /\ outcome.state = "fulfilled"
    THEN Fulfilled(Undefined)
    ELSE outcome

(***************************************************************************)
(* Calls                                                                   *)
(***************************************************************************)
Slots == {"c1", "c2"}

\* the slot used when the caller awaits each call before making the next
SeqSlots == {"c1"}

Idle == [pc |-> "idle", inv |-> NoInv, sent |-> << >>, resp |-> NoResp, outcome |-> NoOutcome]

\* the call just after the caller invoked the method
OnInvoke(inv) ==
    LET p == Dispatch(inv)
    IN  IF p.threw
        THEN [Idle EXCEPT !.pc = "done", !.inv = inv, !.outcome = Rejected(p.error)]
        ELSE [Idle EXCEPT !.pc = "pending", !.inv = inv, !.sent = <<p.req>>]

\* mutant: the response is kept in a field shared by all calls, so a call
\* that ends after another one has ended is settled from that one's response
OnResponse_SharedResponse(call, r) ==
    LET ended == { c \in Slots : calls[c].pc = "done" /\ calls[c].resp # NoResp }
        used == IF ended = {} THEN r ELSE calls[CHOOSE c \in ended : TRUE].resp
    IN  [call EXCEPT !.pc = "done", !.resp = r,
                     !.outcome = Finish(call.inv.op, HandleResponse(used))]

\* mutant: a failed attempt is retried once
OnResponse_Retry(call, r) ==
    IF (r.kind = "network" \/ ~ResponseOk(r)) /\ Len(call.sent) < 2
    THEN [call EXCEPT !.sent = Append(call.sent, call.sent[1])]
    ELSE [call EXCEPT !.pc = "done", !.resp = r,
                      !.outcome = Finish(call.inv.op, HandleResponse(r))]

\* the call just after fetch() settled with r
OnResponse(call, r) ==
    [call EXCEPT !.pc = "done", !.resp = r,
                 !.outcome = Finish(call.inv.op, HandleResponse(r))]

(***************************************************************************)
(* Actions                                                                 *)
(***************************************************************************)
Init ==
    /\ ctor = "none"
    /\ config = [apiKey |-> Absent, baseUrl |-> NoUrl]
    /\ ctorError = ""
    /\ apiKey = Absent
    /\ baseUrl = NoUrl
    /\ calls = [c \in Slots |-> Idle]
    /\ fetchCount = 0

\* new CultureCoded(cfg), while the caller holds no instance
Construct(cfg) ==
    /\ ctor # "ok"
    /\ config' = cfg
    /\ IF CtorThrows(cfg)
       THEN /\ ctor' = "threw"
            /\ ctorError' = ApiKeyRequired
            /\ UNCHANGED <<apiKey, baseUrl>>
       ELSE /\ ctor' = "ok"
            /\ ctorError' = ""
            /\ apiKey' = cfg.apiKey
            /\ baseUrl' = CtorBaseUrl(cfg)
    /\ UNCHANGED <<calls, fetchCount>>

\* the caller invokes a method of the instance: it runs to its throw or to
\* the await of fetch()
Invoke(c, inv) ==
    /\ ctor = "ok"
    /\ calls[c].pc = "idle"
    /\ LET call == OnInvoke(inv)
       IN  /\ fetchCount + Len(call.sent) <= MaxFetches
           /\ calls' = [calls EXCEPT ![c] = call]
           /\ fetchCount' = fetchCount + Len(call.sent)
    /\ UNCHANGED <<ctor, config, ctorError, apiKey, baseUrl>>

\* fetch() settles and the call runs to its end; reading the body
\* (response.json()) is folded into this step: it touches nothing but the
\* call's own response
Respond(c, r) ==
    /\ calls[c].pc = "pending"
    /\ LET call == OnResponse(calls[c], r)
       IN  /\ calls' = [calls EXCEPT ![c] = call]
           /\ fetchCount' = fetchCount + (Len(call.sent) - Len(calls[c].sent))
    /\ UNCHANGED <<ctor, config, ctorError, apiKey, baseUrl>>

\* the caller has taken the settled promise
Release(c) ==
    /\ calls[c].pc = "done"
    /\ calls' = [calls EXCEPT ![c] = Idle]
    /\ UNCHANGED <<ctor, config, ctorError, apiKey, baseUrl, fetchCount>>

Next ==
    \/ \E cfg \in Configs : Construct(cfg)
    \/ \E c \in SeqSlots : calls[c].pc = "idle" /\ \E inv \in Invocations : Invoke(c, inv)
    \/ \E c \in SeqSlots : calls[c].pc = "pending" /\ \E r \in Responses : Respond(c, r)
    \/ \E c \in SeqSlots : Release(c)

\* one call at a time, every argument and every response of the model
Spec == Init /\ [][Next]_vars

\* the arguments and responses used when calls overlap
ConcInvocations ==
    { inv \in Invocations :
        \/ inv.op \in {"exportToFigma", "getUser"}
        \/ inv.op = "exportAnalysis" /\ Get(inv.options, "format") = "figma"
        \/ inv.op = "exportAnalysis" /\ Get(inv.options, "format") = "pdf"
                                     /\ Get(inv.options, "figmaFileKey") # ""
        \/ inv.op = "deleteAnalysis" /\ inv.id = "a1" }

ConcResponses ==
    { r \in Responses :
        \/ r.kind = "network" /\ r.error.name = "TypeError"
        \/ r.kind = "http" /\ r.status = 204 /\ r.body.t = "empty"
        \/ r.kind = "http" /\ r.status = 200 /\ r.body = Body("object", Absent, Absent)
        \/ r.kind = "http" /\ r.status = 401 /\ r.body.t = "html"
        \/ r.kind = "http" /\ r.status = 402
                           /\ r.body = Body("object", "Insufficient credits", "NO_CREDITS") }

NextConc ==
    \/ \E cfg \in Configs : Construct(cfg)
    \/ \E c \in Slots : calls[c].pc = "idle" /\ \E inv \in ConcInvocations : Invoke(c, inv)
    \/ \E c \in Slots : calls[c].pc = "pending" /\ \E r \in ConcResponses : Respond(c, r)
    \/ \E c \in Slots : Release(c)

\* calls in flight at the same time, in every interleaving
SpecConc == Init /\ [][NextConc]_vars

\* the characters of country names: a letter, a digit and the characters
\* that have a meaning in a URL
CountryChars == {"N", "2", " ", "/", "?", "#", "%"}

CountryNames == UNION { [1..n -> CountryChars] : n \in 0..MaxCountryLen }

CountryInvocations ==
    { [NoInv EXCEPT !.op = "getEthnicGroups", !.country = c] : c \in CountryNames }

NextCountry ==
    \/ \E cfg \in Configs : Construct(cfg)
    \/ \E c \in SeqSlots : calls[c].pc = "idle" /\ \E inv \in CountryInvocations : Invoke(c, inv)
    \/ \E c \in SeqSlots : calls[c].pc = "pending" /\ \E r \in ConcResponses : Respond(c, r)
    \/ \E c \in SeqSlots : Release(c)

\* getEthnicGroups with every country name up to MaxCountryLen characters
SpecCountry == Init /\ [][NextCountry]_vars

(***************************************************************************)
(* Properties                                                              *)
(***************************************************************************)
Started == { c \in Slots : calls[c].pc # "idle" }

Settled == { c \in Slots : calls[c].pc = "done" }

\* the call got an HTTP response whose status is outside 200..299
Non2xx(c) ==
    /\ calls[c].pc = "done"
    /\ calls[c].resp.kind = "http"
    /\ (calls[c].resp.status < 200 \/ calls[c].resp.status > 299)

GenericMessage(status) == "Request failed with status " \o ToString(status)

\* C1: every non-2xx response, whatever its body, makes the operation fail
\* with an Error that carries the response's status.
C1_RemoteErrorForEveryBody ==
    \A c \in Slots :
        Non2xx(c) =>
            /\ calls[c].outcome.state = "rejected"
            /\ calls[c].outcome.error.name = "Error"
            /\ calls[c].outcome.error.status = {calls[c].resp.status}

\* C2 as stated: for a JSON-object error body the error's message is the
\* body's message whenever the body has one (the generic text otherwise),
\* and its code is the body's code.
C2_MessageWheneverPresent ==
    \A c \in Slots :
        (Non2xx(c) /\ calls[c].resp.body.t = "object") =>
            LET r == calls[c].resp
                e == calls[c].outcome.error
            IN  /\ e.status = {r.status}
                /\ e.code = r.body.code
                /\ e.message = IF r.body.message # Absent
                               THEN r.body.message
                               ELSE GenericMessage(r.status)

\* C2 amended: the error's message is the body's message when that is a
\* non-empty string and the generic text otherwise (also for an empty
\* message); its code is the body's code, absent when the body has none;
\* its status is the response's.
C2_MessageWhenNonEmpty ==
    \A c \in Slots :
        (Non2xx(c) /\ calls[c].resp.body.t = "object") =>
            LET r == calls[c].resp
                e == calls[c].outcome.error
            IN  /\ calls[c].outcome.state = "rejected"
                /\ e.status = {r.status}
                /\ e.code = r.body.code
                /\ e.message = IF r.body.message \notin {Absent, ""}
                               THEN r.body.message
                               ELSE GenericMessage(r.status)
                /\ (r.status = 402 /\ r.body.message = Absent)
                       => e.message = "Request failed with status 402"

C2_Witness ==
    \E c \in Slots :
        /\ Non2xx(c)
        /\ calls[c].resp.status = 402
        /\ calls[c].resp.body = Body("object", "Insufficient credits", "NO_CREDITS")
        /\ calls[c].outcome.error =
               [name |-> "Error", message |-> "Insufficient credits",
                status |-> {402}, code |-> "NO_CREDITS"]

\* C3: a constructor call with a missing or empty key throws the
\* configuration error and leaves no instance, so nothing is ever called or
\* sent; a call with a non-empty key yields an instance holding that key.
C3_KeyRequired ==
    /\ (ctor # "none" /\ config.apiKey \in {Absent, ""}) =>
           /\ ctor = "threw"
           /\ ctorError = ApiKeyRequired
    /\ (ctor # "none" /\ config.apiKey \notin {Absent, ""}) =>
           /\ ctor = "ok"
           /\ apiKey = config.apiKey
    /\ ctor # "ok" =>
           /\ Started = {}
           /\ fetchCount = 0
           /\ apiKey = Absent

C3_Witness ==
    /\ ctor = "threw"
    /\ config.apiKey = ""
    /\ ctorError = ApiKeyRequired
    /\ fetchCount = 0

NoImage(inv) ==
    /\ inv.op = "analyzeDesign"
    /\ Get(inv.options, "imageUrl") \in {Absent, ""}
    /\ Get(inv.options, "imageBase64") \in {Absent, ""}

ImageRequired == PlainError("Either imageUrl or imageBase64 is required")

\* C4: analyzeDesign with neither imageUrl nor imageBase64 (missing or
\* empty) is rejected with the input error and hands nothing to fetch,
\* whatever the other option fields are.
C4_NoImageNoRequest ==
    \A c \in Started :
        NoImage(calls[c].inv) =>
            /\ calls[c].pc = "done"
            /\ calls[c].outcome = Rejected(ImageRequired)
            /\ calls[c].sent = << >>
            /\ calls[c].resp = NoResp

C4_Witness ==
    \E c \in Settled :
        /\ NoImage(calls[c].inv)
        /\ Get(calls[c].inv.options, "imageUrl") = ""
        /\ Get(calls[c].inv.options, "ethnicGroup") = "Yoruba"
        /\ calls[c].outcome = Rejected(ImageRequired)
        /\ calls[c].sent = << >>

Present(v) == v \notin {Absent, ""}

HasUrl(inv) == Present(Get(inv.options, "imageUrl"))

HasData(inv) == Present(Get(inv.options, "imageBase64"))

\* C5 as stated: analyzeDesign reaches the network only when exactly one of
\* imageUrl and imageBase64 is present.
C5_ExactlyOneImage ==
    \A c \in Started :
        calls[c].inv.op = "analyzeDesign" =>
            (calls[c].sent # << >> <=> (HasUrl(calls[c].inv) # HasData(calls[c].inv)))

\* C5 amended: analyzeDesign reaches the network exactly when at least one
\* of imageUrl and imageBase64 is present; a call carrying both is sent,
\* with both in its body, and only a call carrying neither is rejected
\* before any request.
C5_AtLeastOneImage ==
    \A c \in Started :
        calls[c].inv.op = "analyzeDesign" =>
            /\ calls[c].sent # << >> <=> (HasUrl(calls[c].inv) \/ HasData(calls[c].inv))
            /\ (HasUrl(calls[c].inv) /\ HasData(calls[c].inv)) =>
                   /\ Len(calls[c].sent) = 1
                   /\ Get(calls[c].sent[1].body, "imageUrl") = Get(calls[c].inv.options, "imageUrl")
                   /\ Get(calls[c].sent[1].body, "imageBase64") =
                          Get(calls[c].inv.options, "imageBase64")

C5_Witness ==
    \E c \in Started :
        /\ calls[c].inv.op = "analyzeDesign"
        /\ HasUrl(calls[c].inv) /\ HasData(calls[c].inv)
        /\ Len(calls[c].sent) = 1
        /\ calls[c].sent[1].method = "POST"

FigmaWithoutKey(options) ==
    /\ Get(options, "format") = "figma"
    /\ Get(options, "figmaFileKey") \in {Absent, ""}

KeyRequired == PlainError("figmaFileKey is required for Figma exports")

\* C6: exportAnalysis is rejected with the configuration error, with nothing
\* handed to fetch, exactly when format is "figma" and figmaFileKey is
\* missing or empty; in every other case one request is sent.
C6_FigmaNeedsKey ==
    \A c \in Started :
        calls[c].inv.op = "exportAnalysis" =>
            IF FigmaWithoutKey(calls[c].inv.options)
            THEN /\ calls[c].pc = "done"
                 /\ calls[c].outcome = Rejected(KeyRequired)
                 /\ calls[c].sent = << >>
            ELSE /\ Len(calls[c].sent) = 1
                 /\ calls[c].sent[1].method = "POST"
                 /\ calls[c].outcome # Rejected(KeyRequired)

C6_Witness ==
    /\ \E c \in Settled :
        /\ calls[c].inv.op = "exportAnalysis"
        /\ Get(calls[c].inv.options, "format") = "figma"
        /\ Get(calls[c].inv.options, "figmaFileKey") = ""
        /\ calls[c].outcome = Rejected(KeyRequired)
        /\ calls[c].sent = << >>

\* an exportToFigma call in slot a and the exportAnalysis call the alias
\* stands for, {analysisId: id, format: 'figma', figmaFileKey: key}, in slot b
FigmaPair(a, b) ==
    /\ calls[a].inv.op = "exportToFigma"
    /\ calls[b].inv.op = "exportAnalysis"
    /\ calls[b].inv.options =
           << <<"analysisId", calls[a].inv.id>>, <<"format", "figma">>,
              <<"figmaFileKey", calls[a].inv.key>> >>

\* C7: exportToFigma(id, key) and exportAnalysis({analysisId: id, format:
\* 'figma', figmaFileKey: key}) hand the same request to fetch (URL, method,
\* headers, body), or with an empty key both fail with the same error and no
\* request, and for the same response both end with the same outcome.
C7_FigmaAlias ==
    \A a \in Started, b \in Started :
        FigmaPair(a, b) =>
            /\ calls[a].sent = calls[b].sent
            /\ calls[a].inv.key = "" =>
                   /\ calls[a].sent = << >>
                   /\ calls[a].pc = "done" /\ calls[b].pc = "done"
                   /\ calls[a].outcome = Rejected(KeyRequired)
            /\ calls[a].inv.key # "" => Len(calls[a].sent) = 1
            /\ (calls[a].pc = "done" /\ calls[b].pc = "done"
                    /\ calls[a].resp = calls[b].resp) =>
                   calls[a].outcome = calls[b].outcome

C7_Witness ==
    \E a \in Settled, b \in Settled :
        /\ FigmaPair(a, b)
        /\ calls[a].inv.key = "fk-1"
        /\ Len(calls[a].sent) = 1
        /\ calls[a].sent[1].body =
               << <<"analysisId", calls[a].inv.id>>, <<"format", "figma">>,
                  <<"figmaFileKey", "fk-1">> >>
        /\ calls[a].sent = calls[b].sent
        /\ calls[a].resp.kind = "http" /\ calls[a].resp.status = 402
        /\ calls[a].resp = calls[b].resp
        /\ calls[a].outcome = calls[b].outcome

\* two "/" in a row
HasDoubleSlash(url) == \E i \in 1..(Len(url) - 1) : url[i] = "/" /\ url[i + 1] = "/"

\* where the versioned API root "/api/..." starts in a request URL
ApiStart(url) ==
    CHOOSE i \in 1..Len(url) :
        /\ url[i] = "/" /\ url[i + 1] = "api"
        /\ \A j \in 1..(i - 1) : ~(url[j] = "/" /\ url[j + 1] = "api")

\* what precedes the operation's path in a request URL
BasePart(url) == SubSeq(url, 1, ApiStart(url) - 1)

\* C8: with no base URL in the config every request goes to the default base
\* URL followed by the operation's path; with a base URL in the config every
\* request goes to exactly that value followed by the path, and no request
\* URL has a doubled slash at the join, also when the given base URL ends
\* with "/".  (An empty string is read here as no base URL given: the
\* statement asks nothing of the base part then.)
C8_BaseUrlVerbatimNoDoubleSlash ==
    \A c \in Started :
        calls[c].sent # << >> =>
            LET url == calls[c].sent[1].url
            IN  /\ config.baseUrl = NoUrl => BasePart(url) = DefaultBaseUrl
                /\ config.baseUrl \notin {NoUrl, << >>} => BasePart(url) = config.baseUrl
                /\ ~HasDoubleSlash(url)

\* C9: a 204 response fulfils the operation with undefined, whatever the
\* body holds (nothing is parsed); so deleteAnalysis on 204 is fulfilled with
\* undefined and not rejected.
C9_NoContent ==
    \A c \in Settled :
        (calls[c].resp.kind = "http" /\ calls[c].resp.status = 204) =>
            calls[c].outcome = [state |-> "fulfilled", value |-> Undefined, error |-> NoError]

C9_Witness ==
    \E c \in Settled :
        /\ calls[c].inv.op = "deleteAnalysis"
        /\ calls[c].resp.kind = "http" /\ calls[c].resp.status = 204
        /\ calls[c].resp.body.t = "empty"
        /\ calls[c].outcome.state = "fulfilled"
        /\ calls[c].outcome.value = Undefined

\* the calls whose arguments fail the operation's pre-flight validation
PreflightFails(inv) ==
    \/ NoImage(inv)
    \/ inv.op = "exportAnalysis" /\ FigmaWithoutKey(inv.options)
    \/ inv.op = "exportToFigma" /\ inv.key \in {Absent, ""}

\* the call's fetch was answered by a non-2xx response or failed in transport
FetchFailed(c) ==
    /\ calls[c].pc = "done"
    /\ \/ calls[c].resp.kind = "network"
       \/ Non2xx(c)

\* C10: a call hands exactly one request to fetch when its pre-flight
\* validation passes and none when it fails, never a second one; after a
\* non-2xx response or a transport failure the call is over and rejected with
\* still one request sent, and a transport failure is rejected with the very
\* error fetch gave.
C10_OneRequestNoRetry ==
    \A c \in Started :
        /\ Len(calls[c].sent) = IF PreflightFails(calls[c].inv) THEN 0 ELSE 1
        /\ Len(calls[c].sent) <= fetchCount
        /\ calls[c].resp # NoResp => calls[c].pc = "done"
        /\ FetchFailed(c) =>
               /\ calls[c].outcome.state = "rejected"
               /\ Len(calls[c].sent) = 1
        /\ (calls[c].pc = "done" /\ calls[c].resp.kind = "network") =>
               calls[c].outcome.error = calls[c].resp.error

C10_Witness ==
    \E c \in Settled :
        /\ calls[c].resp.kind = "network"
        /\ calls[c].resp.error.name = "AbortError"
        /\ calls[c].outcome = Rejected(calls[c].resp.error)
        /\ Len(calls[c].sent) = 1
        /\ fetchCount = 1

\* C11: every request handed to fetch, after any earlier calls (fulfilled
\* or rejected), has exactly the headers x-api-key, Content-Type and
\* User-Agent: the key is the non-empty key the constructor was given, the
\* content type is JSON and the user agent is the client's.
C11_HeadersOnEveryRequest ==
    \A c \in Started :
        \A i \in 1..Len(calls[c].sent) :
            LET h == calls[c].sent[i].headers
            IN  /\ Get(h, "x-api-key") = config.apiKey
                /\ Get(h, "x-api-key") \notin {Absent, ""}
                /\ Get(h, "Content-Type") = "application/json"
                /\ Get(h, "User-Agent") = "culturecoded-sdk-js/1.0.0"
                /\ Len(h) = 3

\* a third request, made with key-2 after two earlier calls have ended
C11_Witness ==
    \E c \in Started :
        /\ fetchCount = 3
        /\ Len(calls[c].sent) = 1
        /\ config.apiKey = "key-2"
        /\ Get(calls[c].sent[1].headers, "x-api-key") = "key-2"
        /\ calls[c].pc = "pending"

\* the operation's path in a request URL, from the API root on
PathPart(url) == SubSeq(url, ApiStart(url), Len(url))

VersionedRoot == <<"/", "api", "/", "v1", "/">>

\* C12 as stated: analyzeDesign sends POST to /analyses under the versioned
\* API root, the collection path that getAnalyses reads.
C12_AnalyzePostsToAnalyses ==
    \A c \in Started :
        (calls[c].inv.op = "analyzeDesign" /\ calls[c].sent # << >>) =>
            /\ calls[c].sent[1].method = "POST"
            /\ PathPart(calls[c].sent[1].url) = VersionedRoot \o <<"analyses">>

\* C12 amended: analyzeDesign sends POST to /analyze under the versioned API
\* root, which is not the collection path: getAnalyses sends GET to
\* /analyses, and getAnalysis and deleteAnalysis send GET and DELETE to
\* /analyses/{id}.
C12_AnalyzePostsToAnalyze ==
    \A c \in Started :
        calls[c].sent # << >> =>
            LET req == calls[c].sent[1]
                op == calls[c].inv.op
            IN  /\ op = "analyzeDesign" =>
                       /\ req.method = "POST"
                       /\ PathPart(req.url) = VersionedRoot \o <<"analyze">>
                /\ op = "getAnalyses" =>
                       /\ req.method = "GET"
                       /\ PathPart(req.url) = VersionedRoot \o <<"analyses">>
                /\ op = "getAnalysis" =>
                       /\ req.method = "GET"
                       /\ PathPart(req.url) = VersionedRoot \o <<"analyses", "/", calls[c].inv.id>>
                /\ op = "deleteAnalysis" =>
                       /\ req.method = "DELETE"
                       /\ PathPart(req.url) = VersionedRoot \o <<"analyses", "/", calls[c].inv.id>>

C12_Witness ==
    \E c \in Started :
        /\ calls[c].inv.op = "analyzeDesign"
        /\ Len(calls[c].sent) = 1
        /\ calls[c].sent[1].method = "POST"
        /\ calls[c].sent[1].url = baseUrl \o <<"/", "api", "/", "v1", "/", "analyze">>

\* the analysis id, format and file key a call to an export operation was given
OwnExport(inv) ==
    IF inv.op = "exportToFigma"
    THEN [id |-> inv.id, format |-> "figma", key |-> inv.key]
    ELSE [id |-> Get(inv.options, "analysisId"), format |-> Get(inv.options, "format"),
          key |-> Get(inv.options, "figmaFileKey")]

\* the request of call c is made of the construction-time key and base URL
\* and of the call's own arguments
OwnRequest(c) ==
    LET req == calls[c].sent[1]
        inv == calls[c].inv
    IN  /\ Len(calls[c].sent) = 1
        /\ BasePart(req.url) = baseUrl
        /\ Get(req.headers, "x-api-key") = apiKey
        /\ inv.op \in {"exportToFigma", "exportAnalysis"} =>
               /\ req.method = "POST"
               /\ PathPart(req.url) = VersionedRoot \o <<"exports">>
               /\ req.hasBody
               /\ Get(req.body, "analysisId") = OwnExport(inv).id
               /\ Get(req.body, "format") = OwnExport(inv).format
               /\ Get(req.body, "figmaFileKey") = OwnExport(inv).key
        /\ inv.op = "deleteAnalysis" =>
               /\ req.method = "DELETE"
               /\ PathPart(req.url) = VersionedRoot \o <<"analyses", "/", inv.id>>
               /\ ~req.hasBody
        /\ inv.op = "getUser" =>
               /\ req.method = "GET"
               /\ PathPart(req.url) = VersionedRoot \o <<"user">>
               /\ ~req.hasBody

\* the outcome of call c is the one its own response calls for
OwnOutcome(c) ==
    LET r == calls[c].resp
        o == calls[c].outcome
    IN  /\ r.kind = "network" => (o.state = "rejected" /\ o.error = r.error)
        /\ (r.kind = "http" /\ r.status = 204) => (o.state = "fulfilled" /\ o.value = Undefined)
        /\ (r.kind = "http" /\ r.status = 200 /\ r.body.t = "object") =>
               /\ o.state = "fulfilled"
               /\ o.value = IF calls[c].inv.op = "deleteAnalysis" THEN Undefined ELSE r.body
        /\ Non2xx(c) =>
               /\ o.state = "rejected"
               /\ o.error.status = {r.status}
               /\ o.error.code = r.body.code
               /\ o.error.message = IF r.body.message \notin {Absent, ""}
                                    THEN r.body.message
                                    ELSE GenericMessage(r.status)

\* C13: with calls in flight together, in every interleaving of their sends
\* and of the arrivals of their responses, the key and the base URL stay
\* what the constructor made of its config, every request is made of those
\* two and of the call's own arguments, and every outcome is the one the
\* call's own response calls for; two calls with the same arguments send the
\* same request, and with the same response end the same way.
C13_CallsIndependent ==
    /\ ctor = "ok" =>
           /\ apiKey = config.apiKey
           /\ baseUrl = IF config.baseUrl \in {NoUrl, << >>}
                        THEN DefaultBaseUrl ELSE config.baseUrl
    /\ \A c \in Started : calls[c].sent # << >> => OwnRequest(c)
    /\ \A c \in Settled : calls[c].resp # NoResp => OwnOutcome(c)
    /\ \A a \in Started, b \in Started :
           calls[a].inv = calls[b].inv =>
               /\ calls[a].sent = calls[b].sent
               /\ (calls[a].pc = "done" /\ calls[b].pc = "done"
                       /\ calls[a].resp = calls[b].resp) =>
                      calls[a].outcome = calls[b].outcome

\* two different calls ended differently, one by a transport failure and one
\* fulfilled, each with the request of its own arguments
C13_Witness ==
    \E a \in Settled, b \in Settled :
        /\ calls[a].inv.op = "exportToFigma" /\ calls[a].inv.id = "a1"
        /\ calls[b].inv.op = "exportAnalysis" /\ Get(calls[b].inv.options, "analysisId") = "a2"
        /\ Len(calls[a].sent) = 1 /\ Len(calls[b].sent) = 1
        /\ Get(calls[a].sent[1].body, "analysisId") = "a1"
        /\ Get(calls[b].sent[1].body, "analysisId") = "a2"
        /\ calls[a].resp.kind = "network" /\ calls[a].outcome.state = "rejected"
        /\ calls[b].resp.status = 200 /\ calls[b].outcome.state = "fulfilled"
        /\ fetchCount = 2

HexDigit ==
    ("0" :> 0) @@ ("1" :> 1) @@ ("2" :> 2) @@ ("3" :> 3) @@ ("4" :> 4) @@ ("5" :> 5) @@
    ("6" :> 6) @@ ("7" :> 7) @@ ("8" :> 8) @@ ("9" :> 9) @@ ("A" :> 10) @@ ("B" :> 11) @@
    ("C" :> 12) @@ ("D" :> 13) @@ ("E" :> 14) @@ ("F" :> 15)

\* the code points of the characters of country names
CodePoint ==
    ("N" :> 78) @@ ("2" :> 50) @@ (" " :> 32) @@ ("/" :> 47) @@ ("?" :> 63) @@
    ("#" :> 35) @@ ("%" :> 37) @@ ("g" :> 103) @@ ("U" :> 85) @@ ("K" :> 75)

CodePoints(s) == [i \in 1..Len(s) |-> CodePoint[s[i]]]

\* percent-decoding of a path segment, as code points; -1 stands for a "%"
\* that two hexadecimal digits do not follow
RECURSIVE PercentDecode(_)
PercentDecode(s) ==
    IF s = << >> THEN << >>
    ELSE IF Head(s) = "%"
         THEN IF Len(s) >= 3 /\ s[2] \in DOMAIN HexDigit /\ s[3] \in DOMAIN HexDigit
              THEN <<16 * HexDigit[s[2]] + HexDigit[s[3]]>>
                       \o PercentDecode(SubSeq(s, 4, Len(s)))
              ELSE <<-1>>
         ELSE <<CodePoint[Head(s)]>> \o PercentDecode(Tail(s))

\* C14: getEthnicGroups(country) sends GET to the base URL, the versioned
\* root and /ethnic-groups/ followed by one segment: the segment holds no
\* "/", "?", "#" or space, and percent-decoding it gives the country name
\* exactly as passed (also for names holding "%", such as "%2F").
C14_CountryIsOneSegment ==
    \A c \in Started :
        calls[c].inv.op = "getEthnicGroups" =>
            LET url == calls[c].sent[1].url
                prefix == baseUrl \o VersionedRoot \o <<"ethnic-groups", "/">>
                segment == SubSeq(url, Len(prefix) + 1, Len(url))
            IN  /\ Len(calls[c].sent) = 1
                /\ calls[c].sent[1].method = "GET"
                /\ SubSeq(url, 1, Len(prefix)) = prefix
                /\ \A i \in 1..Len(segment) : segment[i] \notin {"/", "?", "#", " "}
                /\ PercentDecode(segment) = CodePoints(calls[c].inv.country)

C14_Witness ==
    \E c \in Started :
        /\ calls[c].inv.op = "getEthnicGroups"
        /\ calls[c].inv.country = <<"/", "%", "2">>
        /\ Len(calls[c].sent) = 1
        /\ calls[c].sent[1].url =
               baseUrl \o <<"/", "api", "/", "v1", "/", "ethnic-groups", "/",
                            "%", "2", "F", "%", "2", "5", "2">>

\* the call got an HTTP response with a 2xx status other than 204
Ok2xxNot204(c) ==
    /\ calls[c].pc = "done"
    /\ calls[c].resp.kind = "http"
    /\ calls[c].resp.status >= 200 /\ calls[c].resp.status <= 299
    /\ calls[c].resp.status # 204

\* the body is a JSON text
ParsesAsJson(b) == b.t \in {"null", "string", "number", "object"}

\* rejected with the JSON parser's error: no status, no code
ParserRejection(o) ==
    /\ o.state = "rejected"
    /\ o.error.name = "SyntaxError"
    /\ o.error.status = {}
    /\ o.error.code = Absent

\* C15 as stated: for a 2xx response other than 204 the outcome of every
\* operation is the result of parsing the body as JSON: the parsed value, or
\* the parser's error (without status and code) when the body is empty or
\* not JSON.
C15_OutcomeIsParseResult ==
    \A c \in Settled :
        Ok2xxNot204(c) =>
            IF ParsesAsJson(calls[c].resp.body)
            THEN /\ calls[c].outcome.state = "fulfilled"
                 /\ calls[c].outcome.value = calls[c].resp.body
            ELSE ParserRejection(calls[c].outcome)

\* C15 amended: for a 2xx response other than 204 the body is parsed as
\* JSON; when it is empty or not JSON the operation is rejected with the
\* parser's error, which has no status and no code; when it parses, the
\* operation is fulfilled with the parsed value, except deleteAnalysis,
\* which drops the value and is fulfilled with undefined.  Only 204 is
\* taken as "no content".
C15_ParseResultExceptDelete ==
    \A c \in Settled :
        Ok2xxNot204(c) =>
            IF ParsesAsJson(calls[c].resp.body)
            THEN /\ calls[c].outcome.state = "fulfilled"
                 /\ calls[c].outcome.value =
                        IF calls[c].inv.op = "deleteAnalysis"
                        THEN Undefined
                        ELSE calls[c].resp.body
            ELSE ParserRejection(calls[c].outcome)

C15_Witness ==
    \E c \in Settled :
        /\ calls[c].inv.op = "getUser"
        /\ calls[c].resp.kind = "http"
        /\ calls[c].resp.status = 201
        /\ calls[c].resp.body.t = "empty"
        /\ ParserRejection(calls[c].outcome)

====
